---- MODULE Spec2Model ----
(***************************************************************************)
(* Model of python_agents: LLMClient.invoke (client.py), the Message       *)
(* TypedDict (message.py) and SimpleMemory (memory.py).                    *)
(*                                                                         *)
(* Python values are encoded as follows.  An Optional value is a sequence  *)
(* of length 0 (None) or 1 (the value).  A dict is a record that has       *)
(* exactly the keys that are set.  A keyword-argument mapping is a set of  *)
(* <<key, value>> pairs.                                                   *)
(***************************************************************************)
EXTENDS Integers, Sequences, FiniteSets, TLC

VARIABLES
    pc,          \* position of the invoke coroutine
    query,       \* the query argument: [kind, text, msgs]
    verbose,     \* the verbose argument
    tools,       \* self.tools: the set of registered tool names
    messages,    \* the local list `messages`
    response,    \* the local `response`: Optional model response
    i,           \* 1-based position of the for loop in tool_calls
    pending,     \* Optional (tool_call_id, tool_name, tool_result) of the awaited dispatch
    returned,    \* Optional value returned by invoke
    err,         \* exception that left invoke, "none" while there is none
    sent,        \* history: the messages argument of every model call issued
    responses,   \* history: every response a model call returned
    calls,       \* history: every [name, kwargs, raised] invocation of a registered callable
    attempts,    \* history: number of _make_tool_call invocations
    stdout,      \* history: lines printed
    given,       \* history: the content of the caller's list when invoke was called
    store,       \* SimpleMemory.messages
    last,        \* history: the last SimpleMemory operation [op, arg]
    prev,        \* history: the SimpleMemory operation before the last one
    lenBefore,   \* history: len(SimpleMemory.messages) before the last operation
    addedSystem  \* history: add_message was given a message of role system

invokeVars == <<pc, query, verbose, tools, messages, response, i, pending,
                returned, err, sent, responses, calls, attempts, stdout, given>>
memoryVars == <<store, last, prev, lenBefore, addedSystem>>
vars == <<invokeVars, memoryVars>>

----------------------------------------------------------------------------
(* Bounds *)

\* most tool-call requests the model endpoint emits during one invoke
MaxRequests == 3
\* longest list the caller passes as query
MaxQuery == 1
\* longest SimpleMemory.messages
MaxStore == 3

----------------------------------------------------------------------------
(* Python values *)

None == <<>>
Some(x) == <<x>>
Get(o) == o[1]

ToolMessage_swapped(content, tool_call_id, name) ==
    [role |-> "tool", content |-> content, tool_call_id |-> name, name |-> tool_call_id]

\* message.py: a Message is a plain dict with the keys role and content and,
\* when set, tool_call_id, name and tool_calls.
Message(role, content) == [role |-> role, content |-> content]

ToolMessage(content, tool_call_id, name) ==
    [role |-> "tool", content |-> content, tool_call_id |-> tool_call_id, name |-> name]

Roles == {"system", "user"}
Texts == {"2+2?", "hi"}
CallerMessages == {Message(r, c) : r \in Roles, c \in Texts}

RECURSIVE SeqsUpTo(_, _)
SeqsUpTo(S, n) ==
    IF n = 0 THEN {<<>>}
    ELSE LET shorter == SeqsUpTo(S, n - 1)
         IN  shorter \cup {Append(s, x) : s \in {t \in shorter : Len(t) = n - 1}, x \in S}

----------------------------------------------------------------------------
(* The caller's inputs *)

\* What the caller passes as query.  kind says what the caller built: a text,
\* one Message, a list of Messages, or something else (here a number).
QueryMessages == {Message("user", t) : t \in Texts} \cup {Message("system", "be brief")}

Queries ==
    {[kind |-> "text", text |-> t, msgs |-> <<>>] : t \in Texts}
    \cup {[kind |-> "message", text |-> "", msgs |-> <<m>>] : m \in QueryMessages}
    \cup {[kind |-> "sequence", text |-> "", msgs |-> s] : s \in SeqsUpTo(QueryMessages, MaxQuery)}
    \cup {[kind |-> "number", text |-> "", msgs |-> <<>>]}

\* type(query) at run time.  Message is a TypedDict: Message(...) builds a plain
\* dict, so the type of a Message value is dict and never the class Message.
PyType(q) ==
    CASE q.kind = "text" -> "str"
      [] q.kind = "message" -> "dict"
      [] q.kind = "sequence" -> "list"
      [] OTHER -> "int"

\* names a callable can be registered under, and names the model may request
ToolNames == {"getWeather"}
RequestedNames == {"getWeather", "ghost"}

----------------------------------------------------------------------------
(* The model endpoint *)

\* tc.function.arguments: None, the empty text, a JSON object, malformed JSON
ArgumentPayloads == {None, Some(""), Some("{\"city\": \"Paris\"}"), Some("{bad")}

CallId(k) == "call_" \o ToString(k)

ToolCall(id, name, arguments) ==
    [id |-> id, function |-> [name |-> name, arguments |-> arguments]]

\* the tool_calls lists of length n; the endpoint numbers its requests
Batches(n) ==
    {[k \in 1..n |-> ToolCall(CallId(k), f[k][1], f[k][2])] :
        f \in [1..n -> RequestedNames \X ArgumentPayloads]}

AssistantMessage(content, tool_calls) ==
    [role |-> "assistant", content |-> content, tool_calls |-> tool_calls]

\* response.choices[0] of a completion that requests at most `budget` tools
ModelResponses(budget) ==
    {[message |-> AssistantMessage("4", tcs)] :
        tcs \in {None} \cup UNION {{Some(b) : b \in Batches(n)} : n \in 0..budget}}

RequestsIn(r) ==
    IF r.message.tool_calls = None THEN 0 ELSE Len(Get(r.message.tool_calls))

RECURSIVE Requested(_)
Requested(rs) == IF rs = <<>> THEN 0 ELSE RequestsIn(Head(rs)) + Requested(Tail(rs))

\* _make_llm_call: the outcomes of awaiting one completion.  It reads messages
\* and self.tools and returns response.choices[0], or the transport raises.
make_llm_call(budget) ==
    {[raised |-> "none", value |-> Some(r)] : r \in ModelResponses(budget)}
    \cup {[raised |-> "APIConnectionError", value |-> None]}

----------------------------------------------------------------------------
(* The tool dispatcher *)

\* json.loads on the payloads above
JsonLoads(text) ==
    CASE text = "{\"city\": \"Paris\"}" -> [raised |-> "none", value |-> {<<"city", "Paris">>}]
      [] OTHER -> [raised |-> "JSONDecodeError", value |-> {}]

\* what a registered callable does when called: returns a value or raises
CallableOutcomes == {[raised |-> "none", value |-> "Sunny, 22C"],
                     [raised |-> "ToolError", value |-> ""]}

\* a test that takes only None for an absent payload
Truthy_notNone(arguments) == arguments # None

\* bool(tool_args): None and the empty text are falsy
Truthy(arguments) == arguments # None /\ Get(arguments) # ""

\* a dispatcher that turns a failure of the callable into a result text
make_tool_call_swallow(registry, tc, outcome) ==
    LET tool_name == tc.function.name
        raw == tc.function.arguments
        parsed == IF Truthy(raw) THEN JsonLoads(Get(raw))
                  ELSE [raised |-> "none", value |-> {}]
    IN  IF parsed.raised # "none"
        THEN [raised |-> parsed.raised, value |-> None, called |-> None]
        ELSE IF tool_name \in registry
        THEN [raised |-> "none",
              value |-> Some(<<tc.id, tool_name,
                               IF outcome.raised = "none" THEN outcome.value ELSE "error">>),
              called |-> Some([name |-> tool_name, kwargs |-> parsed.value,
                               raised |-> outcome.raised])]
        ELSE [raised |-> "UnknownTool", value |-> None, called |-> None]

\* a dispatcher that answers a request for an unregistered tool with a result text
make_tool_call_lenient(registry, tc, outcome) ==
    LET tool_name == tc.function.name
        raw == tc.function.arguments
        parsed == IF Truthy(raw) THEN JsonLoads(Get(raw))
                  ELSE [raised |-> "none", value |-> {}]
    IN  IF parsed.raised # "none"
        THEN [raised |-> parsed.raised, value |-> None, called |-> None]
        ELSE IF tool_name \in registry
        THEN [raised |-> outcome.raised,
              value |-> IF outcome.raised = "none"
                        THEN Some(<<tc.id, tool_name, outcome.value>>) ELSE None,
              called |-> Some([name |-> tool_name, kwargs |-> parsed.value,
                               raised |-> outcome.raised])]
        ELSE [raised |-> "none", value |-> Some(<<tc.id, tool_name, "unknown tool">>),
              called |-> None]

\* _make_tool_call(tc) with `outcome` the behaviour of the callable, should it
\* be called.  Gives what was raised, the returned triple, and whether the
\* callable was invoked, with which keyword arguments and what it raised.
make_tool_call(registry, tc, outcome) ==
    LET tool_name == tc.function.name
        raw == tc.function.arguments
        parsed == IF Truthy(raw) THEN JsonLoads(Get(raw))
                  ELSE [raised |-> "none", value |-> {}]
    IN  IF parsed.raised # "none"
        THEN [raised |-> parsed.raised, value |-> None, called |-> None]
        ELSE IF tool_name \in registry
        THEN [raised |-> outcome.raised,
              value |-> IF outcome.raised = "none"
                        THEN Some(<<tc.id, tool_name, outcome.value>>) ELSE None,
              called |-> Some([name |-> tool_name, kwargs |-> parsed.value,
                               raised |-> outcome.raised])]
        ELSE [raised |-> "UnknownTool", value |-> None, called |-> None]

----------------------------------------------------------------------------
(* LLMClient.invoke *)

\* a chain whose else branch falls back to an empty conversation
Normalise_lenient(q) ==
    IF PyType(q) = "str"
    THEN [raised |-> "none", value |-> <<Message("user", q.text)>>]
    ELSE IF PyType(q) = "Message"
    THEN [raised |-> "none", value |-> <<q.msgs[1]>>]
    ELSE IF PyType(q) = "list"
    THEN [raised |-> "none", value |-> q.msgs]
    ELSE [raised |-> "none", value |-> <<>>]

\* a chain that files a text query under the system role
Normalise_system(q) ==
    IF PyType(q) = "str"
    THEN [raised |-> "none", value |-> <<Message("system", q.text)>>]
    ELSE IF PyType(q) = "Message"
    THEN [raised |-> "none", value |-> <<q.msgs[1]>>]
    ELSE IF PyType(q) = "list"
    THEN [raised |-> "none", value |-> q.msgs]
    ELSE [raised |-> "ValueError", value |-> <<>>]

\* the if/elif chain on type(query) at the head of invoke
Normalise(q) ==
    IF PyType(q) = "str"
    THEN [raised |-> "none", value |-> <<Message("user", q.text)>>]
    ELSE IF PyType(q) = "Message"
    THEN [raised |-> "none", value |-> <<q.msgs[1]>>]
    ELSE IF PyType(q) = "list"
    THEN [raised |-> "none", value |-> q.msgs]
    ELSE [raised |-> "ValueError", value |-> <<>>]

\* a chain that works on a copy of the caller's list
Aliased_copy(q) == FALSE

\* `messages = query` binds the caller's own list, the other branches build a new one
Aliased(q) == PyType(q) = "list"

\* response.message.model_dump()
ModelDump(message) ==
    [role |-> message.role, content |-> message.content, tool_calls |-> message.tool_calls]

\* the test `response.message.tool_calls is not None`
RequestsTools(r) == r.message.tool_calls # None

\* an append that files the message at the front
AppendMessage_prepend(m) ==
    /\ messages' = <<m>> \o messages
    /\ query' = IF Aliased(query) THEN [query EXCEPT !.msgs = <<m>> \o @] ELSE query

\* messages.append(m); the caller's list is the same object when aliased
AppendMessage(m) ==
    /\ messages' = Append(messages, m)
    /\ query' = IF Aliased(query) THEN [query EXCEPT !.msgs = Append(@, m)] ELSE query

ToolCalls == Get(Get(response).message.tool_calls)

Init ==
    /\ pc = "entry"
    /\ query \in Queries
    /\ verbose \in BOOLEAN
    /\ tools = {}
    /\ messages = <<>>
    /\ response = None
    /\ i = 0
    /\ pending = None
    /\ returned = None
    /\ err = "none"
    /\ sent = <<>>
    /\ responses = <<>>
    /\ calls = <<>>
    /\ attempts = 0
    /\ stdout = <<>>
    /\ given = query.msgs
    /\ store = <<>>
    /\ last = [op |-> "init", arg |-> None]
    /\ prev = [op |-> "init", arg |-> None]
    /\ lenBefore = 0
    /\ addedSystem = FALSE

\* add_tool(func), called by the owner of the client before invoke
add_tool ==
    /\ pc = "entry"
    /\ \E name \in ToolNames \ tools : tools' = tools \cup {name}
    /\ UNCHANGED <<pc, query, verbose, messages, response, i, pending, returned,
                   err, sent, responses, calls, attempts, stdout, given, memoryVars>>

\* invoke, lines 47-54
Entry ==
    /\ pc = "entry"
    /\ LET n == Normalise(query)
       IN  IF n.raised = "none"
           THEN /\ messages' = n.value
                /\ pc' = "llm1"
                /\ err' = err
           ELSE /\ err' = n.raised
                /\ pc' = "error"
                /\ messages' = messages
    /\ UNCHANGED <<query, verbose, tools, response, i, pending, returned,
                   sent, responses, calls, attempts, stdout, given, memoryVars>>

\* one `await self._make_llm_call(messages, model_name)`, to completion
AwaitModel(next) ==
    /\ sent' = Append(sent, messages)
    /\ \E out \in make_llm_call(MaxRequests - Requested(responses)) :
         IF out.raised = "none"
         THEN /\ response' = out.value
              /\ responses' = Append(responses, Get(out.value))
              /\ pc' = next
              /\ err' = err
         ELSE /\ err' = out.raised
              /\ pc' = "error"
              /\ UNCHANGED <<response, responses>>

\* invoke, line 56
FirstModelCall ==
    /\ pc = "llm1"
    /\ AwaitModel("branch")
    /\ UNCHANGED <<query, verbose, tools, messages, i, pending, returned,
                   calls, attempts, stdout, given, memoryVars>>

\* invoke, lines 58-59 and 73-75
Branch ==
    /\ pc = "branch"
    /\ IF RequestsTools(Get(response))
       THEN /\ AppendMessage(ModelDump(Get(response).message))
            /\ i' = 1
            /\ pc' = "loop"
            /\ stdout' = stdout
       ELSE /\ stdout' = IF verbose
                         THEN Append(stdout, "Response: " \o Get(response).message.content)
                         ELSE stdout
            /\ pc' = "return"
            /\ UNCHANGED <<messages, query, i>>
    /\ UNCHANGED <<verbose, tools, response, pending, returned, err,
                   sent, responses, calls, attempts, given, memoryVars>>

\* invoke, lines 60-61: the next tc of the for loop, and the awaited dispatch
Dispatch ==
    /\ pc = "loop"
    /\ i <= Len(ToolCalls)
    /\ \E outcome \in CallableOutcomes :
         LET r == make_tool_call(tools, ToolCalls[i], outcome)
         IN  /\ attempts' = attempts + 1
             /\ calls' = IF r.called = None THEN calls ELSE Append(calls, Get(r.called))
             /\ IF r.raised = "none"
                THEN /\ pending' = r.value
                     /\ pc' = "append"
                     /\ err' = err
                ELSE /\ err' = r.raised
                     /\ pc' = "error"
                     /\ pending' = pending
    /\ UNCHANGED <<query, verbose, tools, messages, response, i, returned,
                   sent, responses, stdout, given, memoryVars>>

\* invoke, lines 62-70
AppendToolMessage ==
    /\ pc = "append"
    /\ LET tool_call_id == Get(pending)[1]
           tool_name == Get(pending)[2]
           tool_result == Get(pending)[3]
       IN  /\ stdout' = Append(stdout, "Called tool " \o tool_name)
           /\ AppendMessage(ToolMessage(tool_result, tool_call_id, tool_name))
    /\ pending' = None
    /\ i' = i + 1
    /\ pc' = "loop"
    /\ UNCHANGED <<verbose, tools, response, returned, err,
                   sent, responses, calls, attempts, given, memoryVars>>

\* a second model call whose response is filed into the sequence by the call itself
SecondModelCall_appending ==
    /\ pc = "loop"
    /\ i > Len(ToolCalls)
    /\ sent' = Append(sent, messages)
    /\ \E out \in make_llm_call(MaxRequests - Requested(responses)) :
         IF out.raised = "none"
         THEN /\ response' = out.value
              /\ responses' = Append(responses, Get(out.value))
              /\ AppendMessage(ModelDump(Get(out.value).message))
              /\ pc' = "return"
              /\ err' = err
         ELSE /\ err' = out.raised
              /\ pc' = "error"
              /\ UNCHANGED <<response, responses, messages, query>>
    /\ UNCHANGED <<verbose, tools, i, pending, returned,
                   calls, attempts, stdout, given, memoryVars>>

\* a second model call that does not wait for the end of the for loop
SecondModelCall_early ==
    /\ pc = "loop"
    /\ AwaitModel("return")
    /\ UNCHANGED <<query, verbose, tools, messages, i, pending, returned,
                   calls, attempts, stdout, given, memoryVars>>

\* a second model call whose response is tested for tool calls again
SecondModelCall_loop ==
    /\ pc = "loop"
    /\ i > Len(ToolCalls)
    /\ AwaitModel("branch")
    /\ UNCHANGED <<query, verbose, tools, messages, i, pending, returned,
                   calls, attempts, stdout, given, memoryVars>>

\* invoke, line 72: the for loop is exhausted
SecondModelCall ==
    /\ pc = "loop"
    /\ i > Len(ToolCalls)
    /\ AwaitModel("return")
    /\ UNCHANGED <<query, verbose, tools, messages, i, pending, returned,
                   calls, attempts, stdout, given, memoryVars>>

\* invoke, line 77
Return ==
    /\ pc = "return"
    /\ returned' = response
    /\ pc' = "done"
    /\ UNCHANGED <<query, verbose, tools, messages, response, i, pending, err,
                   sent, responses, calls, attempts, stdout, given, memoryVars>>

Next ==
    \/ add_tool
    \/ Entry
    \/ FirstModelCall
    \/ Branch
    \/ Dispatch
    \/ AppendToolMessage
    \/ SecondModelCall
    \/ Return

Spec == Init /\ [][Next]_vars

\* the steps of the invoke coroutine: the event loop resumes it whenever the
\* awaited model call or tool call has completed
InvokeStep ==
    \/ Entry
    \/ FirstModelCall
    \/ Branch
    \/ Dispatch
    \/ AppendToolMessage
    \/ SecondModelCall
    \/ Return

FairSpec == Spec /\ WF_vars(InvokeStep)

----------------------------------------------------------------------------
(* SimpleMemory *)

\* list.insert(0, message)
Prepend(message, list) == <<message>> \o list

\* the list SimpleMemory.add_message leaves
AddMessageTo(list, message) == Append(list, message)

\* an insert that always prepends
InsertSystemMessageInto_prepend(list, message) == Prepend(message, list)

\* an insert that looks for the system message at the end of the list
InsertSystemMessageInto_last(list, message) ==
    IF Len(list) > 0
    THEN IF list[Len(list)].role = "system"
         THEN [list EXCEPT ![1] = message]
         ELSE Prepend(message, list)
    ELSE <<message>>

\* the list SimpleMemory.insert_system_message leaves
InsertSystemMessageInto(list, message) ==
    IF Len(list) > 0
    THEN IF list[1].role = "system"
         THEN [list EXCEPT ![1] = message]
         ELSE Prepend(message, list)
    ELSE <<message>>

Record(op, arg) ==
    /\ prev' = last
    /\ last' = [op |-> op, arg |-> arg]
    /\ lenBefore' = Len(store)

add_message ==
    /\ Len(store) < MaxStore
    /\ \E message \in CallerMessages :
         /\ store' = AddMessageTo(store, message)
         /\ Record("add_message", Some(message))
         /\ addedSystem' = (addedSystem \/ message.role = "system")
    /\ UNCHANGED invokeVars

insert_system_message ==
    /\ \E message \in CallerMessages :
         /\ Len(InsertSystemMessageInto(store, message)) <= MaxStore
         /\ store' = InsertSystemMessageInto(store, message)
         /\ Record("insert_system_message", Some(message))
    /\ UNCHANGED addedSystem
    /\ UNCHANGED invokeVars

clear ==
    /\ store' = <<>>
    /\ Record("clear", None)
    /\ UNCHANGED addedSystem
    /\ UNCHANGED invokeVars

\* a SimpleMemory right after __init__, next to a client nobody invokes
InitMemory ==
    /\ Init
    /\ query = [kind |-> "text", text |-> "hi", msgs |-> <<>>]
    /\ verbose = FALSE

NextMemory ==
    \/ add_message
    \/ insert_system_message
    \/ clear

SpecMemory == InitMemory /\ [][NextMemory]_vars

----------------------------------------------------------------------------
(* Properties of invoke *)

Finished == pc \in {"done", "error"}

\* the tool-result messages invoke appends for requests 1..n of the batch tcs
IsToolResultFor(m, tc) ==
    /\ m.role = "tool"
    /\ m.tool_call_id = tc.id
    /\ m.name = tc.function.name

\* s is base, then the assistant message of response r, then one tool-result
\* message for each of the first n requests of r, in the order requested
ExtendsByRound(s, base, r, n) ==
    LET tcs == Get(r.message.tool_calls)
    IN  /\ Len(s) = Len(base) + 1 + n
        /\ SubSeq(s, 1, Len(base)) = base
        /\ s[Len(base) + 1] = [role |-> "assistant", content |-> r.message.content,
                               tool_calls |-> r.message.tool_calls]
        /\ \A k \in 1..n : IsToolResultFor(s[Len(base) + 1 + k], tcs[k])

\* C1: invoke goes on resolving tool batches until a model response carries no
\* tool-call requests and returns that response: the response it returns is the
\* last one received and carries no pending tool-call request, however many
\* tool-requesting rounds precede it.
C1_ReturnsResponseWithoutRequests ==
    pc = "done" =>
        /\ returned # None
        /\ Get(returned) = responses[Len(responses)]
        /\ RequestsIn(Get(returned)) = 0

\* C2: if a model response requests N >= 1 tool calls, then the next model call,
\* when it is issued, is given a sequence that ends with the assistant message
\* followed by exactly N tool messages, the k-th carrying the id and the name of
\* the k-th request.
C2_BatchResolvedBeforeNextCall ==
    \A k \in 1..Len(responses) :
        (RequestsIn(responses[k]) >= 1 /\ Len(sent) > k) =>
            ExtendsByRound(sent[k + 1], sent[k], responses[k], RequestsIn(responses[k]))

C2_Witness ==
    /\ Len(sent) = 2
    /\ RequestsIn(responses[1]) = 3
    /\ Get(responses[1].message.tool_calls)[1].function.arguments
         # Get(responses[1].message.tool_calls)[2].function.arguments

\* C3: if the first model response's tool_calls is an empty list or None, invoke
\* returns that very response after exactly one model call, with no tool
\* dispatch and no message appended.
C3_SingleRoundTrip ==
    (Finished /\ responses # <<>> /\ RequestsIn(responses[1]) = 0) =>
        /\ pc = "done"
        /\ returned = Some(responses[1])
        /\ Len(sent) = 1
        /\ attempts = 0
        /\ messages = sent[1]

\* the tool_calls of the first response, empty while there is none
FirstBatch ==
    IF responses = <<>> \/ responses[1].message.tool_calls = None
    THEN <<>>
    ELSE Get(responses[1].message.tool_calls)

\* invoke aborted inside the batch, the for loop being at request i
AbortedInBatch ==
    /\ pc = "error"
    /\ i \in 1..Len(FirstBatch)

\* C4 as claimed: whenever invoke aborts with the unknown-tool error, whatever
\* the position of the unregistered name in the batch, no further model call
\* has been issued and the sequence is the sequence before the round plus only
\* the assistant's tool-call-request message.
C4_NothingAppendedBeyondAssistant ==
    (pc = "error" /\ err = "UnknownTool") =>
        /\ Len(sent) = 1
        /\ ExtendsByRound(messages, sent[1], responses[1], 0)

\* C4 amended: once the dispatcher has been given a request whose tool name is
\* not in the registry, invoke has aborted at that request: it is the last one
\* dispatched, the error is the unknown-tool error (the argument parse error
\* when the payload is non-empty and malformed, since the payload is parsed
\* first), no further model call is issued, and the sequence is the sequence
\* before the round plus the assistant message plus one tool-result message
\* for each request that precedes the unregistered one in the batch.
C4_AbortsAtUnknownTool ==
    \A k \in 1..attempts :
        FirstBatch[k].function.name \notin tools =>
            /\ AbortedInBatch
            /\ i = k
            /\ attempts = k
            /\ err = IF /\ Truthy(FirstBatch[k].function.arguments)
                        /\ JsonLoads(Get(FirstBatch[k].function.arguments)).raised # "none"
                     THEN "JSONDecodeError" ELSE "UnknownTool"
            /\ Len(sent) = 1
            /\ returned = None
            /\ ExtendsByRound(messages, sent[1], responses[1], k - 1)

C4_Witness ==
    /\ pc = "error"
    /\ err = "UnknownTool"
    /\ i = 2
    /\ Len(messages) = Len(sent[1]) + 2
    /\ messages[Len(messages)].role = "tool"

\* C7: a query that is one Message is wrapped into a one-element sequence, the
\* first model call is issued with exactly that sequence, and the query is not
\* rejected as an unsupported query type.
C7_SingleMessageWrapped ==
    (query.kind = "message" /\ pc # "entry") =>
        /\ err # "ValueError"
        /\ sent # <<>> => sent[1] = <<query.msgs[1]>>

\* C8: a query that is neither text, nor one Message, nor a list makes invoke
\* fail with the unsupported-query-type error, after no model call and no tool
\* dispatch.
C8_UnsupportedQueryRejected ==
    (query.kind = "number" /\ pc # "entry") =>
        /\ pc = "error"
        /\ err = "ValueError"
        /\ sent = <<>>
        /\ responses = <<>>
        /\ attempts = 0
        /\ calls = <<>>

C8_Witness ==
    /\ query.kind = "number"
    /\ pc = "error"
    /\ tools # {}

\* C9: for a text query q, every model call is given a sequence whose first
\* message is {role: user, content: q}, however many assistant and tool
\* messages have been appended.
C9_TextQueryStaysFirst ==
    query.kind = "text" =>
        /\ \A k \in 1..Len(sent) : sent[k][1] = [role |-> "user", content |-> query.text]
        /\ pc \notin {"entry", "error"} => messages[1] = [role |-> "user", content |-> query.text]

C9_Witness ==
    /\ query.kind = "text"
    /\ Len(sent) = 2
    /\ Len(sent[2]) = 4
    /\ sent[2][4].role = "tool"

\* C10: if a registered callable raises while the k-th request of a batch is
\* dispatched, invoke aborts with that error: the k-th request is the last one
\* dispatched, no further model call is issued, nothing is returned, and the
\* sequence holds tool-result messages for the k-1 earlier requests only.
C10_CallableErrorAborts ==
    \A c \in 1..Len(calls) :
        calls[c].raised # "none" =>
            /\ c = Len(calls)
            /\ AbortedInBatch
            /\ err = calls[c].raised
            /\ attempts = i
            /\ calls[c].name = FirstBatch[i].function.name
            /\ Len(sent) = 1
            /\ returned = None
            /\ ExtendsByRound(messages, sent[1], responses[1], i - 1)

C10_Witness ==
    /\ pc = "error"
    /\ err = "ToolError"
    /\ i = 2
    /\ Len(FirstBatch) = 3
    /\ Len(calls) = 2

----------------------------------------------------------------------------
(* Properties of SimpleMemory *)

SystemIndexes(list) == {k \in 1..Len(list) : list[k].role = "system"}

\* C5 as claimed: after any sequence of add_message, insert_system_message and
\* clear the store holds at most one system message, and it is at index 0.
C5_SystemOnlyFirst == SystemIndexes(store) \subseteq {1}

\* C5 amended: the same, for the sequences of operations in which add_message
\* is never given a message of role system.
C5_SystemOnlyFirstUnlessAdded == ~addedSystem => SystemIndexes(store) \subseteq {1}

C5_Witness ==
    /\ ~addedSystem
    /\ Len(store) = 3
    /\ store[1].role = "system"
    /\ last.op = "insert_system_message"
    /\ prev.op = "add_message"

TwoInsertsInARow ==
    /\ last.op = "insert_system_message"
    /\ prev.op = "insert_system_message"

\* C6 as claimed: after insert_system_message(m1) immediately followed by
\* insert_system_message(m2), index 0 holds m2 and the length is the one the
\* first call left, for all Messages m1 and m2.
C6_SecondInsertReplaces ==
    TwoInsertsInARow =>
        /\ store[1] = Get(last.arg)
        /\ Len(store) = lenBefore

\* C6 amended: the same, for every m1 of role system and every m2.
C6_SecondInsertReplacesSystem ==
    (TwoInsertsInARow /\ Get(prev.arg).role = "system") =>
        /\ store[1] = Get(last.arg)
        /\ Len(store) = lenBefore

C6_Witness ==
    /\ TwoInsertsInARow
    /\ Get(prev.arg).role = "system"
    /\ Get(last.arg) # Get(prev.arg)
    /\ Len(store) = 3

----------------------------------------------------------------------------
(* Further properties of invoke *)

\* C11: a model call leaves the message sequence as it was when the call was
\* issued, for the first and the second call, whether it returns or raises; if
\* it raises, invoke aborts with that failure: the failed call is the last
\* model call, no tool is dispatched after it and nothing is returned.
C11_ModelCallLeavesSequence ==
    /\ pc \in {"branch", "return", "done"} => messages = sent[Len(sent)]
    /\ err = "APIConnectionError" =>
        /\ pc = "error"
        /\ messages = sent[Len(sent)]
        /\ Len(responses) = Len(sent) - 1
        /\ returned = None
        /\ pending = None
        /\ Len(sent) = 1 => attempts = 0
        /\ Len(sent) = 2 => attempts = Len(FirstBatch)

C11_Witness ==
    /\ err = "APIConnectionError"
    /\ Len(sent) = 2
    /\ Len(messages) = 4
    /\ query.kind = "sequence"

\* C13: invoke has no cap on the number of rounds and ends only once a model
\* response carries no pending tool-call request: while every response so far
\* has requested tools, invoke has not reached Done.
C13_DoneOnlyAfterResponseWithoutRequests ==
    pc = "done" => \E k \in 1..Len(responses) : RequestsIn(responses[k]) = 0

\* the number of tool-result messages appended so far
ToolResultsAppended ==
    IF sent = <<>> \/ Len(messages) <= Len(sent[1]) THEN 0
    ELSE Len(messages) - Len(sent[1]) - 1

\* C14: at most one step of invoke is in flight: the k-th request of a batch is
\* dispatched only when the tool-result messages of the k-1 earlier requests
\* have been appended, and a model call is issued only when every request of
\* the batch has been dispatched and its result appended.
C14_OneStepInFlight ==
    /\ attempts \in {ToolResultsAppended, ToolResultsAppended + 1}
    /\ attempts = ToolResultsAppended + 1 => pc \in {"append", "error"}
    /\ pending # None <=> pc = "append"
    /\ \A k \in 1..ToolResultsAppended :
         IsToolResultFor(messages[Len(sent[1]) + 1 + k], FirstBatch[k])
    /\ Len(sent) = 2 =>
        /\ attempts = Len(FirstBatch)
        /\ ToolResultsAppended = Len(FirstBatch)
        /\ pending = None

C14_Witness ==
    /\ pc = "append"
    /\ attempts = 3
    /\ ToolResultsAppended = 2

\* C15: the dispatcher looks the tool name up before it parses the arguments:
\* a dispatched request for an unregistered tool ends in the unknown-tool
\* error whatever its arguments payload, a malformed payload included.
C15_UnknownToolWhateverPayload ==
    \A k \in 1..attempts :
        FirstBatch[k].function.name \notin tools =>
            /\ pc = "error"
            /\ err = "UnknownTool"

\* C16: a request for a registered tool whose arguments payload is the empty
\* text or None is dispatched as a call of that tool with the empty mapping;
\* if invoke aborts at that request, the error is the one the callable raised.
C16_EmptyPayloadIsEmptyMapping ==
    \A k \in 1..attempts :
        (/\ FirstBatch[k].function.name \in tools
         /\ FirstBatch[k].function.arguments \in {<<>>, <<"">>}) =>
            /\ Len(calls) >= k
            /\ calls[k].name = FirstBatch[k].function.name
            /\ calls[k].kwargs = {}
            /\ (pc = "error" /\ k = attempts /\ Len(sent) = 1) =>
                 (err = calls[k].raised /\ err \notin {"none", "JSONDecodeError", "UnknownTool"})

C16_Witness ==
    /\ attempts = 2
    /\ Len(calls) = 2
    /\ FirstBatch[1].function.arguments = <<>>
    /\ FirstBatch[2].function.arguments = <<"">>
    /\ calls[2].kwargs = {}
    /\ pc = "append"

IsPrefix(s, t) == Len(s) <= Len(t) /\ SubSeq(t, 1, Len(s)) = s

\* C17: during invoke the message sequence only grows at its end: each state
\* of the sequence, and of the caller's list, is a prefix of the next one, so
\* the caller's messages and the appended ones are never removed, reordered
\* or rewritten, also on the step that aborts invoke.
C17_SequenceOnlyGrows ==
    [][/\ IsPrefix(messages, messages')
       /\ IsPrefix(query.msgs, query.msgs')
       /\ (query.kind = "sequence" /\ pc' # "entry" /\ err' # "ValueError")
            => IsPrefix(given, messages')]_vars

C17_Witness ==
    /\ pc = "error"
    /\ query.kind = "sequence"
    /\ Len(given) = 1
    /\ Len(messages) = 4
    /\ err = "ToolError"

StepsLeft ==
    CASE pc = "entry" -> 2 * MaxRequests + 7 + Cardinality(ToolNames \ tools)
      [] pc = "llm1" -> 2 * MaxRequests + 6
      [] pc = "branch" -> 2 * MaxRequests + 5
      [] pc = "loop" -> 2 * (Len(ToolCalls) + 1 - i) + 3
      [] pc = "append" -> 2 * (Len(ToolCalls) + 1 - i) + 2
      [] pc = "return" -> 1
      [] OTHER -> 0

\* C19: one invoke issues at most two model calls and resolves at most one
\* batch of tool calls, whatever the model answers; and as every awaited model
\* call and tool call completes, invoke ends, by returning or raising: until
\* then a step is always possible, and each step leaves fewer steps to take.
C19_TwoCallsThenEnds ==
    /\ [](/\ Len(sent) <= 2
          /\ Len(responses) <= 2
          /\ attempts <= Len(FirstBatch)
          /\ Len(calls) <= Len(FirstBatch)
          /\ sent # <<>> => Len(messages) <= Len(sent[1]) + 1 + Len(FirstBatch))
    /\ [](~Finished => ENABLED InvokeStep)
    /\ [](StepsLeft >= 0 /\ (StepsLeft = 0 <=> Finished))
    /\ [][StepsLeft' < StepsLeft]_vars

C19_Witness ==
    /\ pc = "done"
    /\ Len(sent) = 2
    /\ attempts = 2
    /\ RequestsIn(responses[2]) = 1

====
